---- MODULE Spec2Model ----
(***************************************************************************)
(* Model of the guarded query pipeline of the NYC 311 analytics agent:     *)
(* the SQL safety gate and execution engine (src/src/query_executor.py),   *)
(* the LangGraph workflow with its nodes (src/src/analytics_agent.py) and  *)
(* the message history of the chat page (src/frontend/app.py).             *)
(*                                                                         *)
(* Text is modelled at two levels.  SQL text is a sequence of one-character*)
(* strings, so that upper(), strip(), startswith() and the \b...\b regular *)
(* expressions are computed character by character.  Messages shown to the *)
(* user are sequences of segments (the literal pieces and the interpolated *)
(* values of the f-strings that build them).                               *)
(***************************************************************************)
EXTENDS Integers, Sequences, FiniteSets, TLC

VARIABLES
    pc,           \* workflow position of the run (node about to execute)
    state,        \* the NYC311AnalyticsState dictionary threaded through the nodes
    payload,      \* what process_query returned (NoPayload until it returns)
    calls,        \* external invocations made so far: LLM calls, gate checks, store accesses
    trace,        \* nodes and branch predicate executed so far, in order
    open_conns,   \* sqlite connections opened and not yet closed
    gate_pc,      \* direct call of validate_sql_safety: "ready" / "done" / "off"
    gate_query,   \* argument of the direct call
    gate_result,  \* its outcome (return value or raised exception)
    runs,         \* the process_query calls in flight together on one agent, by run id
    session       \* st.session_state of the chat page, and where its last script run ended

vars == <<pc, state, payload, calls, trace, open_conns, gate_pc, gate_query, gate_result, runs, session>>

----------------------------------------------------------------------------
(* Bounds *)

\* number of fragments concatenated into an input of the safety gate
MaxFragments == 3

\* largest number of rows the store returns
MaxRows == 3

----------------------------------------------------------------------------
(* Characters and the str methods the code uses *)

lower_letters == <<"a", "b", "c", "d", "e", "f", "g", "h", "i", "j", "k", "l", "m", "n", "o", "p", "q", "r", "s", "t", "u", "v", "w", "x", "y", "z">>
upper_letters == <<"A", "B", "C", "D", "E", "F", "G", "H", "I", "J", "K", "L", "M", "N", "O", "P", "Q", "R", "S", "T", "U", "V", "W", "X", "Y", "Z">>
digit_chars == {"0", "1", "2", "3", "4", "5", "6", "7", "8", "9"}

Range(s) == {s[i] : i \in DOMAIN s}

SetMin(S) == CHOOSE m \in S : \A n \in S : m <= n
SetMax(S) == CHOOSE m \in S : \A n \in S : m >= n

space_chars == {" ", "\t", "\n", "\r"}
word_chars == Range(lower_letters) \cup Range(upper_letters) \cup digit_chars \cup {"_"}

\* characters str.strip() removes and \s matches
IsSpace(c) == c \in space_chars

\* characters \w matches
IsWord(c) == c \in word_chars

to_upper == [c \in Range(lower_letters) |->
                upper_letters[CHOOSE i \in DOMAIN lower_letters : lower_letters[i] = c]]
to_lower == [c \in Range(upper_letters) |->
                lower_letters[CHOOSE i \in DOMAIN upper_letters : upper_letters[i] = c]]

upper_char(c) == IF c \in DOMAIN to_upper THEN to_upper[c] ELSE c

lower_char(c) == IF c \in DOMAIN to_lower THEN to_lower[c] ELSE c

\* str.upper()
upper(s) == [i \in 1..Len(s) |-> upper_char(s[i])]

\* str.strip()
strip(s) ==
    LET keep == {i \in 1..Len(s) : ~IsSpace(s[i])}
    IN  IF keep = {} THEN <<>> ELSE SubSeq(s, SetMin(keep), SetMax(keep))

\* str.startswith(prefix)
startswith(s, prefix) ==
    /\ Len(s) >= Len(prefix)
    /\ SubSeq(s, 1, Len(prefix)) = prefix

\* the needle occurs in s at offset i (characters i+1 .. i+Len(needle))
occurs_at(s, needle, i) ==
    /\ i >= 0
    /\ i + Len(needle) <= Len(s)
    /\ SubSeq(s, i + 1, i + Len(needle)) = needle

\* needle in s
contains(s, needle) == \E i \in 0..Len(s) : occurs_at(s, needle, i)

\* the regex assertion \b at offset p (between characters p and p+1)
word_boundary(s, p) ==
    LET before == p >= 1 /\ IsWord(s[p])
        after  == p < Len(s) /\ IsWord(s[p + 1])
    IN  before # after

\* re.search(r'\bWORD\b', s, re.IGNORECASE)
re_search_word(word, s) ==
    \E i \in 0..Len(s) :
        /\ word_boundary(s, i)
        /\ i + Len(word) <= Len(s)
        /\ upper(SubSeq(s, i + 1, i + Len(word))) = upper(word)
        /\ word_boundary(s, i + Len(word))

----------------------------------------------------------------------------
(* QueryExecutor: the safety gate *)

kw_SELECT == <<"S", "E", "L", "E", "C", "T">>
kw_DROP == <<"D", "R", "O", "P">>
kw_DELETE == <<"D", "E", "L", "E", "T", "E">>
kw_INSERT == <<"I", "N", "S", "E", "R", "T">>
kw_UPDATE == <<"U", "P", "D", "A", "T", "E">>
kw_ALTER == <<"A", "L", "T", "E", "R">>
kw_CREATE == <<"C", "R", "E", "A", "T", "E">>

\* a block-list that lost its last entry
blocked_patterns_short ==
    << [word |-> kw_DROP,   text |-> "\\bDROP\\b"],
       [word |-> kw_DELETE, text |-> "\\bDELETE\\b"],
       [word |-> kw_INSERT, text |-> "\\bINSERT\\b"],
       [word |-> kw_UPDATE, text |-> "\\bUPDATE\\b"],
       [word |-> kw_ALTER,  text |-> "\\bALTER\\b"] >>

\* self.blocked_patterns: each pattern is \bWORD\b; text is the pattern as written
blocked_patterns ==
    << [word |-> kw_DROP,   text |-> "\\bDROP\\b"],
       [word |-> kw_DELETE, text |-> "\\bDELETE\\b"],
       [word |-> kw_INSERT, text |-> "\\bINSERT\\b"],
       [word |-> kw_UPDATE, text |-> "\\bUPDATE\\b"],
       [word |-> kw_ALTER,  text |-> "\\bALTER\\b"],
       [word |-> kw_CREATE, text |-> "\\bCREATE\\b"] >>

\* outcome of a call: a returned value or a raised exception with its message
Returned(v) == [kind |-> "return", value |-> v, exc |-> "", msg |-> <<>>]
Raised(e, m) == [kind |-> "raise", value |-> <<>>, exc |-> e, msg |-> m]

\* the gate without its SELECT rule
validate_sql_safety_no_select_rule(sql_query) ==
    LET sql_upper == strip(upper(sql_query))
        hits == {i \in DOMAIN blocked_patterns : re_search_word(blocked_patterns[i].word, sql_upper)}
    IN  IF hits # {}
        THEN Raised("ValueError", <<"Unsafe SQL operation detected: ", blocked_patterns[SetMin(hits)].text>>)
        ELSE Returned(TRUE)

\* the gate without strip()
validate_sql_safety_no_strip(sql_query) ==
    LET sql_upper == upper(sql_query)
        hits == {i \in DOMAIN blocked_patterns : re_search_word(blocked_patterns[i].word, sql_upper)}
    IN  IF hits # {}
        THEN Raised("ValueError", <<"Unsafe SQL operation detected: ", blocked_patterns[SetMin(hits)].text>>)
        ELSE IF ~startswith(sql_upper, kw_SELECT)
        THEN Raised("ValueError", <<"Only SELECT queries are allowed">>)
        ELSE Returned(TRUE)

\* a gate that reports a rejection as a returned False
validate_sql_safety_returns_false(sql_query) ==
    LET sql_upper == strip(upper(sql_query))
        hits == {i \in DOMAIN blocked_patterns : re_search_word(blocked_patterns[i].word, sql_upper)}
    IN  IF hits # {} THEN Returned(FALSE)
        ELSE IF ~startswith(sql_upper, kw_SELECT) THEN Returned(FALSE)
        ELSE Returned(TRUE)

\* a gate that reports the last pattern that matches
validate_sql_safety_reports_last(sql_query) ==
    LET sql_upper == strip(upper(sql_query))
        hits == {i \in DOMAIN blocked_patterns : re_search_word(blocked_patterns[i].word, sql_upper)}
    IN  IF hits # {}
        THEN Raised("ValueError", <<"Unsafe SQL operation detected: ", blocked_patterns[SetMax(hits)].text>>)
        ELSE IF ~startswith(sql_upper, kw_SELECT)
        THEN Raised("ValueError", <<"Only SELECT queries are allowed">>)
        ELSE Returned(TRUE)

\* QueryExecutor.validate_sql_safety: the for loop raises at the first pattern that matches
validate_sql_safety(sql_query) ==
    LET sql_upper == strip(upper(sql_query))
        hits == {i \in DOMAIN blocked_patterns : re_search_word(blocked_patterns[i].word, sql_upper)}
    IN  IF hits # {}
        THEN Raised("ValueError", <<"Unsafe SQL operation detected: ", blocked_patterns[SetMin(hits)].text>>)
        ELSE IF ~startswith(sql_upper, kw_SELECT)
        THEN Raised("ValueError", <<"Only SELECT queries are allowed">>)
        ELSE Returned(TRUE)

----------------------------------------------------------------------------
(* QueryExecutor: the execution engine and the store it talks to *)

\* one cell of a sqlite3.Row converted by dict(row): column name, value type, str(value)
Cell(c, t, r) == [col |-> c, type |-> t, repr |-> r]

row_labels ==
    <<"Noise", "Illegal Parking", "Heating", "Street Condition", "Water System",
      "Blocked Driveway", "Street Light Condition", "Plumbing", "Sewer", "Paint/Plaster",
      "Dirty Conditions", "Traffic Signal Condition", "Rodent", "Sanitation Condition",
      "Damaged Tree", "Building/Use", "Derelict Vehicle", "Taxi Complaint", "Graffiti",
      "Consumer Complaint", "Homeless Encampment", "Elevator">>
row_counts == <<"5000", "400", "300", "200", "100">>

\* format(value, ',') of the integers above
row_counts_grouped == <<"5,000", "400", "300", "200", "100">>

\* the i-th row of a result set with ncols columns; a blob cell is a bytes value
Row(i, ncols, blob) ==
    LET first  == Cell("complaint_type", IF blob /\ i = 1 THEN "blob" ELSE "text",
                       row_labels[((i - 1) % Len(row_labels)) + 1])
        second == Cell("count", "int", row_counts[((i - 1) % Len(row_counts)) + 1])
    IN  IF ncols = 1 THEN <<first>> ELSE <<first, second>>

ResultSet(n, ncols, blob) == [i \in 1..n |-> Row(i, ncols, blob)]

\* sizes of the result sets of the store: the small ones, and one row more than
\* prepare_visualization keeps
RowCounts == (0..MaxRows) \cup {21}

\* what the store does with the statement it is given
StoreOutcomes ==
    {[kind |-> k, rows |-> <<>>] : k \in {"connect_fail", "execute_fail", "fetch_fail"}}
    \cup {[kind |-> "rows", rows |-> ResultSet(n, c, b)] :
             n \in RowCounts, c \in 1..2, b \in BOOLEAN}

\* an external invocation or a step of the engine, in the order made: an LLM call
\* ("llm_intent", "llm_sql", "llm_analysis"), the validation of a query ("gate"),
\* sqlite3.connect ("connect"), or a statement given to the store ("store")
Call(target, okay, text) == [to |-> target, ok |-> okay, arg |-> text]

\* result of execute_safe_query: outcome, the gate check and the store accesses it made
\* in order, connections left open
Engine(out, stmts, leaked) == [out |-> out, stmts |-> stmts, leaked |-> leaked]

\* the engine with the validation call removed
execute_safe_query_unvalidated(sql_query, store) ==
    IF store.kind = "connect_fail"
    THEN Engine(Raised("Exception", <<"Database query error: ", "unable to open database file">>),
                <<Call("connect", FALSE, <<>>)>>, 0)
    ELSE IF store.kind = "execute_fail"
    THEN Engine(Raised("Exception", <<"Database query error: ", "near or no such column">>),
                <<Call("connect", TRUE, <<>>), Call("store", FALSE, sql_query)>>, 1)
    ELSE IF store.kind = "fetch_fail"
    THEN Engine(Raised("Exception", <<"Database query error: ", "database disk image is malformed">>),
                <<Call("connect", TRUE, <<>>), Call("store", TRUE, sql_query)>>, 1)
    ELSE Engine(Returned(store.rows),
                <<Call("connect", TRUE, <<>>), Call("store", TRUE, sql_query)>>, 0)

\* the engine validating the query after it has run the statement
execute_safe_query_validates_last(sql_query, store) ==
    LET verdict == validate_sql_safety(sql_query)
        checked == <<Call("gate", verdict.kind = "return", sql_query)>>
    IN  IF store.kind = "connect_fail"
        THEN Engine(Raised("Exception", <<"Database query error: ", "unable to open database file">>),
                    <<Call("connect", FALSE, <<>>)>>, 0)
        ELSE IF store.kind = "execute_fail"
        THEN Engine(Raised("Exception", <<"Database query error: ", "near or no such column">>),
                    <<Call("connect", TRUE, <<>>), Call("store", FALSE, sql_query)>>, 1)
        ELSE IF store.kind = "fetch_fail"
        THEN Engine(Raised("Exception", <<"Database query error: ", "database disk image is malformed">>),
                    <<Call("connect", TRUE, <<>>), Call("store", TRUE, sql_query)>>, 1)
        ELSE IF verdict.kind = "raise"
        THEN Engine(Raised("Exception", <<"Database query error: ">> \o verdict.msg),
                    <<Call("connect", TRUE, <<>>), Call("store", TRUE, sql_query)>> \o checked, 1)
        ELSE Engine(Returned(store.rows),
                    <<Call("connect", TRUE, <<>>), Call("store", TRUE, sql_query)>> \o checked, 0)

\* QueryExecutor.execute_safe_query: every exception inside the try is re-raised as
\* Exception("Database query error: ..."); conn.close() is reached only on success
execute_safe_query(sql_query, store) ==
    LET verdict == validate_sql_safety(sql_query)
        checked == <<Call("gate", verdict.kind = "return", sql_query)>>
    IN  IF verdict.kind = "raise"
        THEN Engine(Raised("Exception", <<"Database query error: ">> \o verdict.msg), checked, 0)
        ELSE IF store.kind = "connect_fail"
        THEN Engine(Raised("Exception", <<"Database query error: ", "unable to open database file">>),
                    checked \o <<Call("connect", FALSE, <<>>)>>, 0)
        ELSE IF store.kind = "execute_fail"
        THEN Engine(Raised("Exception", <<"Database query error: ", "near or no such column">>),
                    checked \o <<Call("connect", TRUE, <<>>), Call("store", FALSE, sql_query)>>, 1)
        ELSE IF store.kind = "fetch_fail"
        THEN Engine(Raised("Exception", <<"Database query error: ", "database disk image is malformed">>),
                    checked \o <<Call("connect", TRUE, <<>>), Call("store", TRUE, sql_query)>>, 1)
        ELSE Engine(Returned(store.rows),
                    checked \o <<Call("connect", TRUE, <<>>), Call("store", TRUE, sql_query)>>, 0)

----------------------------------------------------------------------------
(* Values the collaborators can return *)

\* a JSON object as a Python dict: a function from the keys present to their values
IntentKeys(r, q) ==
    {"is_greeting", "complexity"}
    \cup (IF r = "absent" THEN {} ELSE {"related_to_data"})
    \cup (IF q = "absent" THEN {} ELSE {"query_type"})

IntentDict(r, g, c, q) ==
    [tag |-> "dict",
     val |-> [k \in IntentKeys(r, q) |->
                 CASE k = "related_to_data" -> r
                   [] k = "is_greeting"     -> g
                   [] k = "complexity"      -> c
                   [] k = "query_type"      -> q]]

EmptyDict == [k \in {} |-> ""]

\* values json.loads can produce that are not mappings
NonMappingIntents ==
    {[tag |-> t, val |-> EmptyDict] : t \in {"null", "list", "number", "string"}}

IntentValues ==
    {IntentDict(r, g, c, q) :
        r \in {"true", "false", "absent"}, g \in {"true", "false"},
        c \in {"simple", "detailed"}, q \in {"top_n", "time_analysis", "data_quality", "absent"}}
    \cup NonMappingIntents

\* the literal default of parse_user_query
fallback_intent ==
    [tag |-> "dict",
     val |-> [k \in {"related_to_data", "is_greeting", "complexity"} |->
                 CASE k = "related_to_data" -> "false"
                   [] k = "is_greeting"     -> "false"
                   [] k = "complexity"      -> "unrelated"]]

\* The intent collaborator either fails or answers with text.  The text, after the
\* fence and brace clean-up of lines 116-129, is empty, is JSON for some value, becomes
\* JSON for some value once single quotes are replaced by double quotes, or is no JSON.
IntentResponses ==
    {[kind |-> "raise", form |-> "", value |-> fallback_intent]}
    \cup {[kind |-> "content", form |-> f, value |-> fallback_intent] : f \in {"empty", "garbage"}}
    \cup {[kind |-> "content", form |-> f, value |-> v] :
             f \in {"json", "single_quoted"}, v \in IntentValues}

\* json.loads on the cleaned text
json_loads(text) ==
    IF text.form = "json" THEN Returned(text.value)
    ELSE Raised("JSONDecodeError", <<"Expecting value">>)

\* response_text.replace: single quotes become double quotes
replace_single_quotes(text) ==
    IF text.form = "single_quoted" THEN [text EXCEPT !.form = "json"] ELSE text

\* dict.get(key, default) on a value that is a dict
dict_get(d, key, default) == IF key \in DOMAIN d.val THEN d.val[key] ELSE default

\* Python truth value of a JSON scalar
truthy(v) == v \notin {"false", "null", ""}

\* the grave accent (U+0060), which cannot be written inside a TLA+ string
tick == "\\x60"

\* texts the query-synthesis collaborator returns
SynthTexts ==
    { <<>>,
      <<" ", " ">>,
      <<"S", "E", "L", "E", "C", "T", " ", "a", " ", "F", "R", "O", "M", " ", "n", "y", "c", "_", "3", "1", "1">>,
      <<"D", "E", "L", "E", "T", "E", " ", "F", "R", "O", "M", " ", "n", "y", "c", "_", "3", "1", "1">>,
      <<"s", "e", "l", "e", "c", "t", " ", "a", ";", " ", "d", "r", "o", "p", " ", "t">>,
      <<tick, tick, tick, tick, tick, tick, "S", "E", "L", "E", "C", "T", " ", "a", tick, tick, tick, tick, tick, tick>>,
      <<"S", "E", "L", "E", "C", "T", " ", "a", " ", "W", "H", "E", "R", "E", " ", "y", "e", "a", "r", "_", "c", "r", "e", "a", "t", "e", "d", " ", "=", " ", "2", "0", "1", "2">>,
      <<"\n", "S", "E", "L", "E", "C", "T", " ", "c", "r", "e", "a", "t", "e", "d", "_", "d", "a", "t", "e", "\n">>,
      <<"S", "o", "r", "r", "y", ",", " ", "n", "o", " ", "S", "Q", "L">>,
      <<"S", "E", "L", tick, tick, tick, tick, tick, tick, "E", "C", "T", " ", "a">> }

SynthResponses ==
    {[kind |-> "raise", content |-> <<>>]}
    \cup {[kind |-> "content", content |-> t] : t \in SynthTexts}

\* the analysis collaborator fails, or returns a narrative (possibly empty)
AnalysisResponses ==
    {[kind |-> "raise", content |-> <<>>],
     [kind |-> "content", content |-> <<>>],
     [kind |-> "content", content |-> <<"Noise complaints dominate the data.">>]}

\* questions asked of process_query
UserQueries ==
    { <<"h", "e", "l", "l", "o">>,
      <<"t", "o", "p", " ", "1", "0", " ", "t", "y", "p", "e", "s", "?">>,
      <<"D", "e", "t", "a", "i", "l", "e", "d", " ", "I", "N", "S", "I", "G", "H", "T">> }

----------------------------------------------------------------------------
(* NYC311AnalyticsAgent: the workflow nodes *)

\* what running a node does: the state it returns, the external invocations it made,
\* the connections it left open, and whether it raised out of the node
NodeResult(st, ext, leaked, raised) == [st |-> st, ext |-> ext, leaked |-> leaked, raised |-> raised]

\* str.replace(old, new) with a non-empty old: non-overlapping occurrences, left to right
RECURSIVE replace_all(_, _, _)
replace_all(s, old, new) ==
    IF s = <<>> THEN <<>>
    ELSE IF startswith(s, old)
    THEN new \o replace_all(SubSeq(s, Len(old) + 1, Len(s)), old, new)
    ELSE <<Head(s)>> \o replace_all(Tail(s), old, new)

six_ticks == <<tick, tick, tick, tick, tick, tick>>
year_created == <<"y", "e", "a", "r", "_", "c", "r", "e", "a", "t", "e", "d">>
strftime_prefix == <<"s", "t", "r", "f", "t", "i", "m", "e", "(", "'", "%", "Y", "'", ",", " ", "c", "r", "e", "a", "t", "e", "d", "_", "d", "a", "t", "e", ")", " ", "=", " ", "'">>

\* number of leading whitespace characters of s from offset p
RECURSIVE spaces_from(_, _)
spaces_from(s, p) ==
    IF p < Len(s) /\ IsSpace(s[p + 1]) THEN 1 + spaces_from(s, p + 1) ELSE 0

\* length of the match of year_created\s*=\s*(\d{4}) at the start of s, 0 if none
year_match_len(s) ==
    IF ~startswith(s, year_created) THEN 0
    ELSE LET a == Len(year_created) + spaces_from(s, Len(year_created))
         IN  IF ~(a < Len(s) /\ s[a + 1] = "=") THEN 0
             ELSE LET b == a + 1 + spaces_from(s, a + 1)
                  IN  IF b + 4 <= Len(s) /\ \A j \in 1..4 : s[b + j] \in digit_chars
                      THEN b + 4 ELSE 0

\* re.sub(r'year_created\s*=\s*(\d{4})', r"strftime('%Y', created_date) = '\1'", s)
RECURSIVE sub_year_created(_)
sub_year_created(s) ==
    IF s = <<>> THEN <<>>
    ELSE LET n == year_match_len(s)
         IN  IF n > 0
             THEN strftime_prefix \o SubSeq(s, n - 3, n) \o <<"'">>
                      \o sub_year_created(SubSeq(s, n + 1, Len(s)))
             ELSE <<Head(s)>> \o sub_year_created(Tail(s))

\* lines 271-281 of generate_sql_query: the clean-up of the collaborator's text
clean_sql(content) ==
    LET stripped == strip(content)
        unfenced == strip(replace_all(stripped, six_ticks, <<>>))
    IN  IF contains(unfenced, year_created) THEN sub_year_created(unfenced) ELSE unfenced

\* NYC311AnalyticsAgent.parse_user_query
parse_user_query(st, resp) ==
    IF resp.kind = "raise"
    THEN NodeResult([st EXCEPT !.error_message =
                        <<"Could not understand the question: ", "intent service unavailable">>],
                    <<Call("llm_intent", FALSE, <<>>)>>, 0, FALSE)
    ELSE LET first  == json_loads(resp)
             second == json_loads(replace_single_quotes(resp))
             intent == IF resp.form = "empty" THEN fallback_intent
                       ELSE IF first.kind = "return" THEN first.value
                       ELSE IF second.kind = "return" THEN second.value
                       ELSE fallback_intent
         IN  NodeResult([st EXCEPT !.parsed_intent = intent],
                        <<Call("llm_intent", TRUE, <<>>)>>, 0, FALSE)

\* generate_sql_query without the early return on error_message
generate_sql_query_no_guard(st, resp) ==
    IF resp.kind = "raise"
    THEN NodeResult([st EXCEPT !.error_message =
                        <<"Could not generate query: ", "synthesis service unavailable">>],
                    <<Call("llm_sql", FALSE, <<>>)>>, 0, FALSE)
    ELSE NodeResult([st EXCEPT !.sql_query = clean_sql(resp.content)],
                    <<Call("llm_sql", TRUE, <<>>)>>, 0, FALSE)

\* NYC311AnalyticsAgent.generate_sql_query
generate_sql_query(st, resp) ==
    IF st.error_message # <<>> THEN NodeResult(st, <<>>, 0, FALSE)
    ELSE IF resp.kind = "raise"
    THEN NodeResult([st EXCEPT !.error_message =
                        <<"Could not generate query: ", "synthesis service unavailable">>],
                    <<Call("llm_sql", FALSE, <<>>)>>, 0, FALSE)
    ELSE NodeResult([st EXCEPT !.sql_query = clean_sql(resp.content)],
                    <<Call("llm_sql", TRUE, <<>>)>>, 0, FALSE)

\* execute_query with an except clause that drops the exception
execute_query_swallows(st, store) ==
    IF st.error_message # <<>> \/ st.sql_query = <<>> THEN NodeResult(st, <<>>, 0, FALSE)
    ELSE LET eng == execute_safe_query(st.sql_query, store)
         IN  IF eng.out.kind = "return"
             THEN NodeResult([st EXCEPT !.query_results = eng.out.value], eng.stmts, eng.leaked, FALSE)
             ELSE NodeResult(st, eng.stmts, eng.leaked, FALSE)

\* execute_query that keeps the first row when the fetch fails
execute_query_keeps_partial(st, store) ==
    IF st.error_message # <<>> \/ st.sql_query = <<>> THEN NodeResult(st, <<>>, 0, FALSE)
    ELSE LET eng == execute_safe_query(st.sql_query, store)
         IN  IF eng.out.kind = "return"
             THEN NodeResult([st EXCEPT !.query_results = eng.out.value], eng.stmts, eng.leaked, FALSE)
             ELSE NodeResult([st EXCEPT !.error_message = <<"Query execution failed: ">> \o eng.out.msg,
                                        !.query_results = IF store.kind = "fetch_fail"
                                                          THEN ResultSet(1, 1, FALSE) ELSE <<>>],
                             eng.stmts, eng.leaked, FALSE)

\* execute_query that tries the engine a second time when it fails
execute_query_retries(st, store) ==
    IF st.error_message # <<>> \/ st.sql_query = <<>> THEN NodeResult(st, <<>>, 0, FALSE)
    ELSE LET eng == execute_safe_query(st.sql_query, store)
         IN  IF eng.out.kind = "return"
             THEN NodeResult([st EXCEPT !.query_results = eng.out.value], eng.stmts, eng.leaked, FALSE)
             ELSE NodeResult([st EXCEPT !.error_message = <<"Query execution failed: ">> \o eng.out.msg],
                             eng.stmts \o eng.stmts, eng.leaked + eng.leaked, FALSE)

\* NYC311AnalyticsAgent.execute_query
execute_query(st, store) ==
    IF st.error_message # <<>> \/ st.sql_query = <<>> THEN NodeResult(st, <<>>, 0, FALSE)
    ELSE LET eng == execute_safe_query(st.sql_query, store)
         IN  IF eng.out.kind = "return"
             THEN NodeResult([st EXCEPT !.query_results = eng.out.value], eng.stmts, eng.leaked, FALSE)
             ELSE NodeResult([st EXCEPT !.error_message = <<"Query execution failed: ">> \o eng.out.msg],
                             eng.stmts, eng.leaked, FALSE)

\* json.dumps raises TypeError on a bytes value
json_serializable(rows) == \A i \in DOMAIN rows : \A j \in DOMAIN rows[i] : rows[i][j].type # "blob"

\* rows[:n]
take(rows, n) == SubSeq(rows, 1, IF Len(rows) < n THEN Len(rows) ELSE n)

\* NYC311AnalyticsAgent.analyze_results: json.dumps (line 327) is outside the try
analyze_results(st, resp) ==
    IF st.error_message # <<>> \/ st.query_results = <<>> THEN NodeResult(st, <<>>, 0, FALSE)
    ELSE IF ~json_serializable(take(st.query_results, 10)) THEN NodeResult(st, <<>>, 0, TRUE)
    ELSE IF resp.kind = "raise"
    THEN NodeResult([st EXCEPT !.error_message = <<"Analysis failed: ", "analysis service unavailable">>],
                    <<Call("llm_analysis", FALSE, <<>>)>>, 0, FALSE)
    ELSE NodeResult([st EXCEPT !.analysis_summary = resp.content],
                    <<Call("llm_analysis", TRUE, <<>>)>>, 0, FALSE)

viz_types == {"top_n", "comparison", "geographic_analysis", "time_analysis"}

\* the branch predicate taking a single row as enough
should_create_visualization_one_row(st) ==
    IF st.error_message # <<>> THEN Returned("skip_viz")
    ELSE IF st.parsed_intent.tag # "dict"
    THEN Raised("AttributeError", <<"object has no attribute 'get'">>)
    ELSE IF dict_get(st.parsed_intent, "query_type", "None") \in viz_types
            /\ Len(st.query_results) > 0
    THEN Returned("visualize")
    ELSE Returned("skip_viz")

\* NYC311AnalyticsAgent.should_create_visualization: .get on a parsed_intent that is
\* not a dict raises AttributeError
should_create_visualization(st) ==
    IF st.error_message # <<>> THEN Returned("skip_viz")
    ELSE IF st.parsed_intent.tag # "dict"
    THEN Raised("AttributeError", <<"object has no attribute 'get'">>)
    ELSE IF dict_get(st.parsed_intent, "query_type", "None") \in viz_types
            /\ Len(st.query_results) > 1
    THEN Returned("visualize")
    ELSE Returned("skip_viz")

\* prepare_visualization handing over every row
prepare_visualization_untruncated(st) ==
    IF Len(st.query_results) > 0
    THEN LET columns == [j \in DOMAIN st.query_results[1] |-> st.query_results[1][j].col]
         IN  [st EXCEPT !.visualization_data =
                 [type     |-> "bar",
                  data     |-> st.query_results,
                  x_column |-> IF Len(columns) > 0 THEN columns[1] ELSE "None",
                  y_column |-> IF Len(columns) > 1 THEN columns[2] ELSE "None"]]
    ELSE st

\* NYC311AnalyticsAgent.prepare_visualization
prepare_visualization(st) ==
    IF Len(st.query_results) > 0
    THEN LET columns == [j \in DOMAIN st.query_results[1] |-> st.query_results[1][j].col]
         IN  [st EXCEPT !.visualization_data =
                 [type     |-> "bar",
                  data     |-> take(st.query_results, 20),
                  x_column |-> IF Len(columns) > 0 THEN columns[1] ELSE "None",
                  y_column |-> IF Len(columns) > 1 THEN columns[2] ELSE "None"]]
    ELSE st

----------------------------------------------------------------------------
(* The response composer *)

\* str.lower()
lower(s) == [i \in 1..Len(s) |-> lower_char(s[i])]

\* sep.join(parts)
RECURSIVE join(_, _)
join(parts, sep) ==
    IF parts = <<>> THEN <<>>
    ELSE IF Len(parts) = 1 THEN parts[1]
    ELSE parts[1] \o sep \o join(Tail(parts), sep)

example_questions ==
    <<"'What are the top 10 complaint types?'",
      "'Which borough has the most complaints?'",
      "'What percentage of complaints are closed within 3 days?'">>

\* the f-string of lines 165 and 381
error_text(error_message) ==
    <<"I encountered an issue: ">> \o error_message
    \o <<"\n\nPlease try rephrasing your question or ask something like:">>
    \o <<"\n- ", example_questions[1], "\n- ", example_questions[2], "\n- ", example_questions[3]>>

greeting_text ==
    <<"Hello! I'm your NYC 311 Service Requests analytics agent. Please ask me questions about NYC service request data, such as:",
      "\n\n* What are the top complaint types?", "\n* Which borough has the most complaints?",
      "\n* What's the average resolution time?", "\n* How many complaints are geocoded?">>

refusal_text ==
    <<"I'm sorry, but your question appears to be unrelated to NYC 311 service request data. I can only help you analyze NYC service requests data. Please ask questions about complaint types, boroughs, agencies, resolution times, or other aspects of the NYC 311 dataset.">>

\* ", ".join([f"{k}: {v}" for k, v in result.items()])
formatted_result(row) == join([j \in DOMAIN row |-> <<row[j].col, ": ", row[j].repr>>], <<", ">>)

\* f"\n*Query used: `{sql_query}`*"
query_used(sql_query) == <<"\n*Query used: ", tick>> \o sql_query \o <<tick, "*">>

\* the parts appended by lines 182-194 and again by lines 385-402
detailed_parts(st) ==
    (IF st.analysis_summary # <<>> THEN <<st.analysis_summary>> ELSE <<>>)
    \o (IF st.query_results # <<>>
        THEN <<<<"\n**Detailed Results:**">>>>
             \o [i \in DOMAIN take(st.query_results, 10) |->
                    <<ToString(i), ". ">> \o formatted_result(st.query_results[i])]
        ELSE <<>>)
    \o <<query_used(st.sql_query)>>

\* format(value, ',') accepts numbers only
grouped(cell) ==
    row_counts_grouped[CHOOSE k \in DOMAIN row_counts : row_counts[k] = cell.repr]

concise_line(i, row) ==
    IF Len(row) >= 2
    THEN <<ToString(i), ". ", row[1].repr, ": ", grouped(row[2]), "\n">>
    ELSE <<ToString(i), ". ">> \o formatted_result(row) \o <<"\n">>

RECURSIVE concat(_)
concat(parts) == IF parts = <<>> THEN <<>> ELSE parts[1] \o concat(Tail(parts))

\* the first definition of format_final_response (lines 161-228), which the second
\* definition of the same name replaces in the class body
format_final_response_first(st) ==
    IF st.error_message # <<>>
    THEN Returned([st EXCEPT !.final_response = error_text(st.error_message)])
    ELSE IF st.parsed_intent.tag # "dict"
    THEN Raised("AttributeError", <<"object has no attribute 'get'">>)
    ELSE IF ~truthy(dict_get(st.parsed_intent, "related_to_data", "true"))
    THEN IF truthy(dict_get(st.parsed_intent, "is_greeting", "false"))
         THEN Returned([st EXCEPT !.final_response = greeting_text])
         ELSE Returned([st EXCEPT !.final_response = refusal_text])
    ELSE IF \/ dict_get(st.parsed_intent, "complexity", "simple") = "detailed"
            \/ contains(lower(st.user_query), <<"i", "n", "s", "i", "g", "h", "t">>)
            \/ contains(lower(st.user_query), <<"d", "e", "t", "a", "i", "l", "e", "d">>)
    THEN Returned([st EXCEPT !.final_response = join(detailed_parts(st), <<"\n">>)])
    ELSE IF st.query_results # <<>>
    THEN LET results == st.query_results
             shown   == take(results, 5)
         IN  IF \E i \in DOMAIN shown : Len(shown[i]) >= 2 /\ shown[i][2].type \notin {"int", "float"}
             THEN Raised("ValueError", <<"Cannot specify ',' with 's'.">>)
             ELSE Returned([st EXCEPT !.final_response =
                     <<"Here are the results:\n\n">>
                     \o concat([i \in DOMAIN shown |-> concise_line(i, shown[i])])
                     \o (IF Len(results) > 5
                         THEN <<"\n...and ", ToString(Len(results) - 5), " more results.">>
                         ELSE <<>>)
                     \o <<"\n">> \o query_used(st.sql_query)])
    ELSE Returned([st EXCEPT !.final_response = <<"No data available.\n">> \o query_used(st.sql_query)])

\* a composer whose error branch does not return
format_final_response_falls_through(st) ==
    [st EXCEPT !.final_response = join(detailed_parts(st), <<"\n">>)]

\* a composer that leaves out the query line
format_final_response_no_query_line(st) ==
    IF st.error_message # <<>>
    THEN [st EXCEPT !.final_response = error_text(st.error_message)]
    ELSE [st EXCEPT !.final_response =
             join(SubSeq(detailed_parts(st), 1, Len(detailed_parts(st)) - 1), <<"\n">>)]

\* NYC311AnalyticsAgent.format_final_response as the class ends up defining it
\* (lines 377-405); this is the method build_workflow binds to "format_response"
format_final_response(st) ==
    IF st.error_message # <<>>
    THEN [st EXCEPT !.final_response = error_text(st.error_message)]
    ELSE [st EXCEPT !.final_response = join(detailed_parts(st), <<"\n">>)]

\* NYC311AnalyticsAgent.handle_error: a node no edge leads to
handle_error(st) ==
    [st EXCEPT !.final_response =
        <<"\n        I apologize, but I encountered an error processing your question: ">>
        \o st.error_message
        \o <<"\n        \n        Here are some example questions I can help with:",
             "\n        - \"What are the top 10 complaint types by number of records?\"",
             "\n        - \"Which ZIP code has the highest number of complaints?\"",
             "\n        - \"What percent of complaints are closed within 3 days?\"",
             "\n        - \"How many complaints have valid coordinates?\"",
             "\n        - \"What's the average resolution time by borough?\"",
             "\n        ">>]

----------------------------------------------------------------------------
(* process_query and the compiled workflow *)

\* the state dictionary process_query builds (lines 428-437)
initial_state(user_query) ==
    [user_query         |-> user_query,
     parsed_intent      |-> [tag |-> "dict", val |-> EmptyDict],
     sql_query          |-> <<>>,
     query_results      |-> <<>>,
     analysis_summary   |-> <<>>,
     visualization_data |-> EmptyDict,
     final_response     |-> <<>>,
     error_message      |-> <<>>]

NoPayload == [returned |-> FALSE]

\* the dictionary returned at lines 443-448
payload_of(final_state) ==
    [returned           |-> TRUE,
     response           |-> final_state.final_response,
     visualization_data |-> final_state.visualization_data,
     sql_query          |-> final_state.sql_query,
     raw_results        |-> final_state.query_results]

\* an except clause that returns what the state held when the workflow raised
payload_on_exception_leaks ==
    [returned           |-> TRUE,
     response           |-> <<"Sorry, I encountered an unexpected error: ", "workflow exception">>,
     visualization_data |-> EmptyDict,
     sql_query          |-> state.sql_query,
     raw_results        |-> state.query_results]

\* the dictionary returned by the except clause at lines 450-457
payload_on_exception ==
    [returned           |-> TRUE,
     response           |-> <<"Sorry, I encountered an unexpected error: ", "workflow exception">>,
     visualization_data |-> EmptyDict,
     sql_query          |-> <<>>,
     raw_results        |-> <<>>]

GateIdle == /\ gate_pc = "off" /\ gate_query = <<>> /\ gate_result = Returned(FALSE)

\* the value no prompt: chat_input returned None, no pending_query attribute
NoPrompt == "None"

\* no chat page is open
SessionOff ==
    [messages |-> <<>>, pending_query |-> NoPrompt, agent_initialized |-> FALSE,
     prompt |-> NoPrompt, at |-> "off"]

\* process_query up to the call of self.workflow.ainvoke(state)
Init ==
    /\ pc = "parse_query"
    /\ state \in {initial_state(q) : q \in UserQueries}
    /\ payload = NoPayload
    /\ calls = <<>>
    /\ trace = <<>>
    /\ open_conns = 0
    /\ runs = <<>>
    /\ session = SessionOff
    /\ GateIdle

\* a node ran: record it, and move on unless it raised out of the workflow
RunNode(name, res, next) ==
    /\ state' = res.st
    /\ calls' = calls \o res.ext
    /\ open_conns' = open_conns + res.leaked
    /\ trace' = Append(trace, name)
    /\ pc' = IF res.raised THEN "raised" ELSE next
    /\ UNCHANGED <<payload, gate_pc, gate_query, gate_result, runs, session>>

\* node "parse_query"
ParseUserQuery ==
    /\ pc = "parse_query"
    /\ \E resp \in IntentResponses :
           RunNode("parse_query", parse_user_query(state, resp), "generate_sql")

\* node "generate_sql"
GenerateSqlQuery ==
    /\ pc = "generate_sql"
    /\ \E resp \in SynthResponses :
           RunNode("generate_sql", generate_sql_query(state, resp), "execute_query")

\* node "execute_query"
ExecuteQuery ==
    /\ pc = "execute_query"
    /\ \E store \in StoreOutcomes :
           RunNode("execute_query", execute_query(state, store), "analyze_results")

\* node "analyze_results"
AnalyzeResults ==
    /\ pc = "analyze_results"
    /\ \E resp \in AnalysisResponses :
           RunNode("analyze_results", analyze_results(state, resp), "branch")

\* the conditional edge after "analyze_results" (lines 68-75)
ShouldCreateVisualization ==
    /\ pc = "branch"
    /\ LET tag == should_create_visualization(state)
       IN  pc' = IF tag.kind = "raise" THEN "raised"
                 ELSE IF tag.value = "visualize" THEN "prepare_visualization"
                 ELSE "format_response"
    /\ trace' = Append(trace, "should_create_visualization")
    /\ UNCHANGED <<state, payload, calls, open_conns, gate_pc, gate_query, gate_result, runs, session>>

\* node "prepare_visualization"
PrepareVisualization ==
    /\ pc = "prepare_visualization"
    /\ RunNode("prepare_visualization",
               NodeResult(prepare_visualization(state), <<>>, 0, FALSE), "format_response")

\* node "format_response"
FormatFinalResponse ==
    /\ pc = "format_response"
    /\ RunNode("format_response", NodeResult(format_final_response(state), <<>>, 0, FALSE), "END")

\* process_query returns the payload built from the final state
ProcessQueryReturn ==
    /\ pc = "END"
    /\ payload' = payload_of(state)
    /\ pc' = "done"
    /\ UNCHANGED <<state, calls, trace, open_conns, gate_pc, gate_query, gate_result, runs, session>>

\* process_query catches what the workflow raised
ProcessQueryExcept ==
    /\ pc = "raised"
    /\ payload' = payload_on_exception
    /\ pc' = "done"
    /\ UNCHANGED <<state, calls, trace, open_conns, gate_pc, gate_query, gate_result, runs, session>>

Next ==
    \/ ParseUserQuery
    \/ GenerateSqlQuery
    \/ ExecuteQuery
    \/ AnalyzeResults
    \/ ShouldCreateVisualization
    \/ PrepareVisualization
    \/ FormatFinalResponse
    \/ ProcessQueryReturn
    \/ ProcessQueryExcept

Spec == Init /\ [][Next]_vars

----------------------------------------------------------------------------
(* The safety gate called on its own, as tests/test_basic.py calls it *)

GateFragments ==
    { kw_SELECT,
      <<"s", "e", "l", "e", "c", "t", " ">>,
      <<" ">>,
      <<"\n">>,
      <<";">>,
      <<"_", "x">>,
      <<"d">>,
      kw_DROP,
      <<"d", "e", "l", "e", "t", "e">>,
      <<"I", "n", "s", "e", "r", "t">>,
      kw_UPDATE,
      <<"a", "l", "t", "e", "r">>,
      kw_CREATE }

\* every concatenation of at most n fragments
RECURSIVE Concatenations(_)
Concatenations(n) ==
    IF n = 0 THEN {<<>>}
    ELSE LET shorter == Concatenations(n - 1)
         IN  shorter \cup {s \o f : s \in shorter, f \in GateFragments}

GateInputs == Concatenations(MaxFragments)

InitGate ==
    /\ pc = "off"
    /\ state = initial_state(<<>>)
    /\ payload = NoPayload
    /\ calls = <<>>
    /\ trace = <<>>
    /\ open_conns = 0
    /\ runs = <<>>
    /\ session = SessionOff
    /\ gate_pc = "ready"
    /\ gate_query \in GateInputs
    /\ gate_result = Returned(FALSE)

\* executor.validate_sql_safety(gate_query)
ValidateSqlSafety ==
    /\ gate_pc = "ready"
    /\ gate_result' = validate_sql_safety(gate_query)
    /\ gate_pc' = "done"
    /\ UNCHANGED <<pc, state, payload, calls, trace, open_conns, gate_query, runs, session>>

NextGate == ValidateSqlSafety

SpecGate == InitGate /\ [][NextGate]_vars

----------------------------------------------------------------------------
(* Vocabulary of the properties, stated on the text itself *)

\* q, after trimming surrounding whitespace and ignoring case, begins with SELECT
BeginsWithSelect(q) ==
    \E k \in 0..Len(q) :
        /\ \A i \in 1..k : IsSpace(q[i])
        /\ k + Len(kw_SELECT) <= Len(q)
        /\ \A j \in 1..Len(kw_SELECT) : lower_char(q[k + j]) = lower_char(kw_SELECT[j])

\* word occurs in q in some letter case with no word character on either side
HasWholeWord(q, word) ==
    \E i \in 1..Len(q) :
        /\ i + Len(word) - 1 <= Len(q)
        /\ \A j \in 1..Len(word) : lower_char(q[i + j - 1]) = lower_char(word[j])
        /\ (i = 1 \/ ~IsWord(q[i - 1]))
        /\ (i + Len(word) > Len(q) \/ ~IsWord(q[i + Len(word)]))

\* word occurs in q in some letter case, wherever
HasSubstring(q, word) ==
    \E i \in 1..Len(q) :
        /\ i + Len(word) - 1 <= Len(q)
        /\ \A j \in 1..Len(word) : lower_char(q[i + j - 1]) = lower_char(word[j])

BlockedWords == {kw_DROP, kw_DELETE, kw_INSERT, kw_UPDATE, kw_ALTER, kw_CREATE}

HasBlockedWord(q) == \E w \in BlockedWords : HasWholeWord(q, w)

Rejected(result) == result.kind = "raise"
Permitted(result) == result.kind = "return" /\ result.value = TRUE

Ran(name) == \E i \in DOMAIN trace : trace[i] = name

StoreReceivedAStatement == \E i \in DOMAIN calls : calls[i].to = "store"

SynthesisReturned == \E i \in DOMAIN calls : calls[i].to = "llm_sql" /\ calls[i].ok

----------------------------------------------------------------------------
(* Properties of the safety gate, checked under SpecGate *)

\* C1: a query that, trimmed and ignoring case, does not begin with SELECT is
\* rejected by validate_sql_safety (it never returns True), whatever else it contains.
C1_NonSelectRejected ==
    (gate_pc = "done" /\ ~BeginsWithSelect(gate_query)) => Rejected(gate_result)

\* a non-empty query without any blocked word, not beginning with SELECT, was rejected
C1_Witness ==
    /\ gate_pc = "done"
    /\ gate_query # <<>>
    /\ ~BeginsWithSelect(gate_query)
    /\ ~HasBlockedWord(gate_query)
    /\ Rejected(gate_result)

\* C2: a query containing DROP, DELETE, INSERT, UPDATE, ALTER or CREATE as a whole
\* word, in any letter case and at any position, is rejected even when it begins with
\* SELECT; a blocked word that occurs only inside a longer identifier does not by
\* itself cause rejection (such a query beginning with SELECT is permitted).
C2_BlockedWordRejected ==
    gate_pc = "done" =>
        /\ HasBlockedWord(gate_query) => Rejected(gate_result)
        /\ ( /\ \E w \in BlockedWords : HasSubstring(gate_query, w)
             /\ ~HasBlockedWord(gate_query)
             /\ BeginsWithSelect(gate_query) ) => Permitted(gate_result)

\* a query beginning with SELECT and holding a blocked word after it was rejected
C2_Witness ==
    /\ gate_pc = "done"
    /\ BeginsWithSelect(gate_query)
    /\ \E w \in BlockedWords : HasWholeWord(gate_query, w) /\ ~startswith(upper(strip(gate_query)), w)
    /\ Rejected(gate_result)

\* C3: validate_sql_safety returns True exactly when the query begins with SELECT
\* (trimmed, ignoring case) and contains no blocked keyword as a whole word.
C3_PermittedIff ==
    gate_pc = "done" =>
        (Permitted(gate_result) <=> (BeginsWithSelect(gate_query) /\ ~HasBlockedWord(gate_query)))

\* a query with leading whitespace before a lower-case select was permitted
C3_Witness ==
    /\ gate_pc = "done"
    /\ Len(gate_query) > 0
    /\ IsSpace(gate_query[1])
    /\ \E i \in DOMAIN gate_query : gate_query[i] = "s"
    /\ Permitted(gate_result)

----------------------------------------------------------------------------
(* Properties of a pipeline run, checked under Spec *)

ErrorSet == state.error_message # <<>>

IntentIsUnrelated ==
    /\ state.parsed_intent.tag = "dict"
    /\ "related_to_data" \in DOMAIN state.parsed_intent.val
    /\ state.parsed_intent.val["related_to_data"] = "false"

\* C4: query_results is non-empty only if the session's sql_query is permitted by the
\* safety gate, in the state of the run and in the payload returned.
C4_RowsOnlyIfPermitted ==
    /\ state.query_results # <<>> => Permitted(validate_sql_safety(state.sql_query))
    /\ (payload.returned /\ payload.raw_results # <<>>)
           => Permitted(validate_sql_safety(payload.sql_query))

\* a run returned rows to its caller
C4_Witness ==
    /\ pc = "done"
    /\ payload.raw_results # <<>>
    /\ StoreReceivedAStatement

\* C5: once error_message is set, every later step of the run leaves sql_query,
\* query_results, analysis_summary and visualization_data as they are.
C5_FrozenAfterError ==
    [][ErrorSet =>
           /\ state'.sql_query = state.sql_query
           /\ state'.query_results = state.query_results
           /\ state'.analysis_summary = state.analysis_summary
           /\ state'.visualization_data = state.visualization_data]_vars

\* intent extraction failed, and every later node and the branch predicate ran
C5_Witness ==
    /\ pc = "done"
    /\ ErrorSet
    /\ state.error_message[1] = "Could not understand the question: "
    /\ Ran("generate_sql") /\ Ran("execute_query") /\ Ran("analyze_results")
    /\ Ran("should_create_visualization") /\ Ran("format_response")

\* what C6 promises of a run whose synthesized query the gate rejects
GateRejectionHandled ==
    /\ ErrorSet
    /\ contains(state.error_message, validate_sql_safety(state.sql_query).msg)
    /\ ~StoreReceivedAStatement
    /\ payload.raw_results = <<>>
    /\ payload.response = error_text(state.error_message)

\* C6 as stated: for every query text query synthesis returns and the gate rejects,
\* the empty string included, the run sets error, never queries the store, ends with
\* no result rows, and its final text is the Branch A apology.
C6_AsStated ==
    ( /\ pc = "done"
      /\ Ran("format_response")
      /\ SynthesisReturned
      /\ Rejected(validate_sql_safety(state.sql_query)) )
        => GateRejectionHandled

\* C6 amended: the above holds for every non-empty rejected query text; when the
\* cleaned query text is empty the gate is not consulted: no error is set, the store is
\* not queried and no rows are returned.
C6_NonEmptyRejectionHandled ==
    (pc = "done" /\ SynthesisReturned /\ Rejected(validate_sql_safety(state.sql_query)))
        => IF state.sql_query # <<>>
           THEN GateRejectionHandled
           ELSE /\ ~ErrorSet
                /\ ~StoreReceivedAStatement
                /\ payload.raw_results = <<>>

\* a run whose synthesized query is DELETE FROM nyc_311 has returned
C6_Witness ==
    /\ pc = "done"
    /\ SynthesisReturned
    /\ startswith(state.sql_query, kw_DELETE)
    /\ payload.returned

\* C7: when the intent has related_to_data = false, no statement is given to the store
\* and the payload carries no result rows, whatever query synthesis returns.
C7_UnrelatedNeverExecutes ==
    (pc = "done" /\ IntentIsUnrelated)
        => (~StoreReceivedAStatement /\ payload.raw_results = <<>>)

\* C8: with no error and an intent unrelated to the dataset, the composer bound to
\* format_response produces the capability greeting when is_greeting is true and the
\* scope refusal otherwise.
C8_UnrelatedGetsGreetingOrRefusal ==
    (pc = "done" /\ Ran("format_response") /\ ~ErrorSet /\ IntentIsUnrelated)
        => payload.response =
               (IF truthy(dict_get(state.parsed_intent, "is_greeting", "false"))
                THEN greeting_text ELSE refusal_text)

\* C9: no visualization descriptor exists when query_results has at most one row, in
\* the state of the run and in the payload returned.
C9_NoChartForOneRow ==
    /\ Len(state.query_results) <= 1 => state.visualization_data = EmptyDict
    /\ (payload.returned /\ Len(payload.raw_results) <= 1)
           => payload.visualization_data = EmptyDict

\* a chart-eligible intent got exactly one row and the branch predicate was evaluated
C9_Witness ==
    /\ pc = "done"
    /\ ~ErrorSet
    /\ state.parsed_intent.tag = "dict"
    /\ dict_get(state.parsed_intent, "query_type", "None") \in viz_types
    /\ Len(payload.raw_results) = 1
    /\ Ran("should_create_visualization")

\* C10: when the composer runs with error set, the final text contains the error
\* message and at least one example question, and nothing of the normal branch.
C10_ErrorComposed ==
    (Ran("format_response") /\ ErrorSet) =>
        /\ contains(state.final_response, state.error_message)
        /\ \E i \in DOMAIN example_questions : example_questions[i] \in Range(state.final_response)
        /\ "\n*Query used: " \notin Range(state.final_response)
        /\ "\n**Detailed Results:**" \notin Range(state.final_response)
        /\ state.final_response = error_text(state.error_message)

\* the composer ran after analysis failed on a successful execution
C10_Witness ==
    /\ pc = "done"
    /\ Ran("format_response")
    /\ ErrorSet
    /\ state.error_message[1] = "Analysis failed: "
    /\ state.query_results # <<>>

----------------------------------------------------------------------------
(* Error handling and the composer, checked under Spec (C13 under SpecGate) *)

AnalysisCallFailed == \E i \in DOMAIN calls : calls[i].to = "llm_analysis" /\ ~calls[i].ok

IntentCallFailed == \E i \in DOMAIN calls : calls[i].to = "llm_intent" /\ ~calls[i].ok

IsApology(text) == text # <<>> /\ text[1] = "I encountered an issue: "

HasQueryLine(text) == "\n*Query used: " \in Range(text)

\* C11: a failure of the analysis collaborator after a successful execution leaves
\* error unset and the narrative empty, and the normal composer produces the final
\* text with the result rows.
C11_AnalysisFailureNotFatal ==
    (pc = "done" /\ AnalysisCallFailed) =>
        /\ ~ErrorSet
        /\ state.analysis_summary = <<>>
        /\ ~IsApology(payload.response)
        /\ "\n**Detailed Results:**" \in Range(payload.response)

\* C12: intent extraction never sets error; when the collaborator's response is
\* unusable or the call fails, the intent is a generic one (kind general) and the run
\* goes on to query synthesis.
C12_IntentExtractionNeverFails ==
    Ran("parse_query") =>
        /\ (pc = "generate_sql" => ~ErrorSet)
        /\ (IntentCallFailed \/ state.parsed_intent = fallback_intent)
               => dict_get(state.parsed_intent, "query_type", "None") = "general"
        /\ (pc = "done" => \E i \in DOMAIN calls : calls[i].to = "llm_sql")

\* C13 as stated: validate_sql_safety never raises; a rejection is a returned verdict.
C13_GateNeverThrows ==
    gate_pc = "done" => gate_result.kind = "return"

\* C13 amended: validate_sql_safety terminates on every input; it returns True, or it
\* raises ValueError whose message carries the reason -- a rejection is a raised
\* exception, never a returned value.
C13_GateReturnsTrueOrRaisesValueError ==
    gate_pc = "done" =>
        \/ Permitted(gate_result)
        \/ /\ gate_result.kind = "raise"
           /\ gate_result.exc = "ValueError"
           /\ gate_result.msg # <<>>

\* the query DROP followed by more text was rejected with a ValueError
C13_Witness ==
    /\ gate_pc = "done"
    /\ startswith(gate_query, kw_DROP)
    /\ Len(gate_query) > Len(kw_DROP)
    /\ gate_result.exc = "ValueError"

\* C14: process_query always returns a payload with exactly the four fields (until it
\* does, the run is at a node, at END or in the except clause); when the workflow raised, the payload carries
\* an error text and empty visualization_data, sql_query and raw_results.
C14_AlwaysAPayload ==
    /\ pc # "done" =>
        /\ pc \in {"parse_query", "generate_sql", "execute_query", "analyze_results", "branch",
                   "prepare_visualization", "format_response", "END", "raised"}
        /\ ~payload.returned
    /\ pc = "done" =>
        /\ payload.returned
        /\ DOMAIN payload = {"returned", "response", "visualization_data", "sql_query", "raw_results"}
        /\ payload.response # <<>>
        /\ IF Ran("format_response")
           THEN /\ payload.response = state.final_response
                /\ payload.visualization_data = state.visualization_data
                /\ payload.sql_query = state.sql_query
                /\ payload.raw_results = state.query_results
           ELSE /\ payload.response[1] = "Sorry, I encountered an unexpected error: "
                /\ payload.visualization_data = EmptyDict
                /\ payload.sql_query = <<>>
                /\ payload.raw_results = <<>>

\* the workflow raised after rows had been fetched, and process_query returned
C14_Witness ==
    /\ pc = "done"
    /\ ~Ran("format_response")
    /\ state.query_results # <<>>
    /\ payload.returned

\* C15: once the composer has run, final_response is non-empty and is the text of
\* exactly one branch: the apology, or the normal text ending in the query line.
C15_OneBranchNonEmpty ==
    Ran("format_response") =>
        /\ state.final_response # <<>>
        /\ IsApology(state.final_response) # HasQueryLine(state.final_response)
        /\ IsApology(state.final_response) <=> ErrorSet

\* the composer ran with no error, no query, no rows and no narrative
C15_Witness ==
    /\ Ran("format_response")
    /\ ~ErrorSet
    /\ state.sql_query = <<>>
    /\ state.query_results = <<>>
    /\ state.analysis_summary = <<>>
    /\ state.final_response # <<>>

\* C16: in every run final_response is written exactly once, by one composer.
C16_FinalResponseWrittenOnce ==
    pc = "done" =>
        /\ Cardinality({i \in DOMAIN trace : trace[i] = "format_response"}) = 1
        /\ state.final_response # <<>>

\* C17: no connection opened by execute_safe_query is still open after it returned
\* or raised.
C17_ConnectionReleased ==
    open_conns = 0

\* C18: the execute_query step either stores a complete result set of the store and
\* leaves error unset, or sets error and leaves query_results empty, or is skipped;
\* no state has an execution error together with rows.
C18_AllOrNothing ==
    [][pc = "execute_query" =>
          \/ /\ state'.error_message = <<>>
             /\ \E store \in StoreOutcomes :
                    /\ store.kind = "rows"
                    /\ state'.query_results = store.rows
             /\ StoreReceivedAStatement'
          \/ /\ state'.error_message # <<>>
             /\ state'.query_results = <<>>
          \/ /\ state' = state
             /\ calls' = calls]_vars

\* the store accepted the statement, then failed, and the run ended without rows
C18_Witness ==
    /\ pc = "done"
    /\ ErrorSet
    /\ state.error_message[1] = "Query execution failed: "
    /\ \E i \in DOMAIN calls : calls[i].to = "store" /\ calls[i].ok
    /\ payload.raw_results = <<>>

\* the question asks for detail: it contains 'detailed' or 'insight' in any case
AsksForDetail(q) ==
    \/ contains(lower(q), <<"i", "n", "s", "i", "g", "h", "t">>)
    \/ contains(lower(q), <<"d", "e", "t", "a", "i", "l", "e", "d">>)

\* C20: in the normal branch the composer the workflow runs emits the concise form
\* (at most 5 rows, overflow notice, query line) unless complexity is detailed or the
\* question asks for detail, and the full form with at most 10 rows otherwise.
C20_ConciseUnlessDetailed ==
    ( /\ pc = "done"
      /\ Ran("format_response")
      /\ ~ErrorSet
      /\ state.parsed_intent.tag = "dict"
      /\ truthy(dict_get(state.parsed_intent, "related_to_data", "true"))
      /\ state.query_results # <<>> ) =>
        IF \/ dict_get(state.parsed_intent, "complexity", "simple") = "detailed"
           \/ AsksForDetail(state.user_query)
        THEN "\n**Detailed Results:**" \in Range(payload.response)
        ELSE /\ payload.response[1] = "Here are the results:\n\n"
             /\ "\n**Detailed Results:**" \notin Range(payload.response)
             /\ HasQueryLine(payload.response)

----------------------------------------------------------------------------
(* Several process_query calls in flight on the same agent *)

\* number of process_query calls in flight together
NumRuns == 2

RunIds == 1..NumRuns

\* what the collaborators and the store answer to one run
Answers(q, i, s, d, a) == [question |-> q, intent |-> i, synth |-> s, store |-> d, analysis |-> a]

select_a == <<"S", "E", "L", "E", "C", "T", " ", "a">>
select_b == <<"S", "E", "L", "E", "C", "T", " ", "b">>
delete_from == <<"D", "E", "L", "E", "T", "E", " ", "F", "R", "O", "M", " ", "n", "y", "c", "_", "3", "1", "1">>

RunAnswers ==
    { Answers(<<"t", "o", "p">>,
              [kind |-> "content", form |-> "json", value |-> IntentDict("true", "false", "simple", "top_n")],
              [kind |-> "content", content |-> select_a],
              [kind |-> "rows", rows |-> ResultSet(2, 2, FALSE)],
              [kind |-> "content", content |-> <<"Noise complaints dominate the data.">>]),
      Answers(<<"h", "e", "l", "l", "o">>,
              [kind |-> "raise", form |-> "", value |-> fallback_intent],
              [kind |-> "content", content |-> select_b],
              [kind |-> "rows", rows |-> ResultSet(1, 1, FALSE)],
              [kind |-> "content", content |-> <<>>]),
      Answers(<<"d", "r", "o", "p">>,
              [kind |-> "content", form |-> "garbage", value |-> fallback_intent],
              [kind |-> "content", content |-> delete_from],
              [kind |-> "rows", rows |-> ResultSet(3, 1, FALSE)],
              [kind |-> "content", content |-> <<>>]),
      Answers(<<"n", "u", "l", "l">>,
              [kind |-> "content", form |-> "json", value |-> [tag |-> "null", val |-> EmptyDict]],
              [kind |-> "content", content |-> <<>>],
              [kind |-> "execute_fail", rows |-> <<>>],
              [kind |-> "content", content |-> <<>>]),
      Answers(<<"b", "y", " ", "t", "y", "p", "e">>,
              [kind |-> "content", form |-> "single_quoted", value |-> IntentDict("absent", "false", "detailed", "data_quality")],
              [kind |-> "content", content |-> select_b],
              [kind |-> "rows", rows |-> ResultSet(3, 1, FALSE)],
              [kind |-> "raise", content |-> <<>>]) }

\* one call of process_query: its own state dictionary (a local of the coroutine), where
\* it stands, whether it is suspended in an await of llm.ainvoke, and what it returned
NewRun(ans) ==
    [pc         |-> "parse_query",
     awaiting   |-> FALSE,
     state      |-> initial_state(ans.question),
     payload    |-> NoPayload,
     answers    |-> ans,
     overlapped |-> FALSE]

\* the node the run stands at awaits llm.ainvoke when entered with this state
reaches_await(run) ==
    \/ run.pc = "parse_query"
    \/ run.pc = "generate_sql" /\ run.state.error_message = <<>>
    \/ /\ run.pc = "analyze_results"
       /\ run.state.error_message = <<>>
       /\ run.state.query_results # <<>>
       /\ json_serializable(take(run.state.query_results, 10))

advance(run, res, next) ==
    [run EXCEPT !.state = res.st, !.awaiting = FALSE,
                !.pc = IF res.raised THEN "raised" ELSE next]

\* a run that executes the query the first run holds, as if the query were kept on the agent
step_run_shared_query(run) ==
    CASE run.pc = "parse_query" ->
            advance(run, parse_user_query(run.state, run.answers.intent), "generate_sql")
      [] run.pc = "generate_sql" ->
            advance(run, generate_sql_query(run.state, run.answers.synth), "execute_query")
      [] run.pc = "execute_query" ->
            advance(run, execute_query([run.state EXCEPT !.sql_query = runs[1].state.sql_query],
                                       run.answers.store), "analyze_results")
      [] run.pc = "analyze_results" ->
            advance(run, analyze_results(run.state, run.answers.analysis), "branch")
      [] run.pc = "branch" ->
            LET tag == should_create_visualization(run.state)
            IN  [run EXCEPT !.pc = IF tag.kind = "raise" THEN "raised"
                                   ELSE IF tag.value = "visualize" THEN "prepare_visualization"
                                   ELSE "format_response"]
      [] run.pc = "prepare_visualization" ->
            [run EXCEPT !.state = prepare_visualization(run.state), !.pc = "format_response"]
      [] run.pc = "format_response" ->
            [run EXCEPT !.state = format_final_response(run.state), !.pc = "END"]
      [] run.pc = "END" ->
            [run EXCEPT !.payload = payload_of(run.state), !.pc = "done"]
      [] run.pc = "raised" ->
            [run EXCEPT !.payload = payload_on_exception, !.pc = "done"]

\* the next piece of a run that is not suspended at the start of an await: the rest of
\* its node (or the whole node when it does not await), the branch predicate, or the
\* return of process_query; every piece reads and writes the run's own state only
step_run(run) ==
    CASE run.pc = "parse_query" ->
            advance(run, parse_user_query(run.state, run.answers.intent), "generate_sql")
      [] run.pc = "generate_sql" ->
            advance(run, generate_sql_query(run.state, run.answers.synth), "execute_query")
      [] run.pc = "execute_query" ->
            advance(run, execute_query(run.state, run.answers.store), "analyze_results")
      [] run.pc = "analyze_results" ->
            advance(run, analyze_results(run.state, run.answers.analysis), "branch")
      [] run.pc = "branch" ->
            LET tag == should_create_visualization(run.state)
            IN  [run EXCEPT !.pc = IF tag.kind = "raise" THEN "raised"
                                   ELSE IF tag.value = "visualize" THEN "prepare_visualization"
                                   ELSE "format_response"]
      [] run.pc = "prepare_visualization" ->
            [run EXCEPT !.state = prepare_visualization(run.state), !.pc = "format_response"]
      [] run.pc = "format_response" ->
            [run EXCEPT !.state = format_final_response(run.state), !.pc = "END"]
      [] run.pc = "END" ->
            [run EXCEPT !.payload = payload_of(run.state), !.pc = "done"]
      [] run.pc = "raised" ->
            [run EXCEPT !.payload = payload_on_exception, !.pc = "done"]

InitConc ==
    /\ pc = "off"
    /\ state = initial_state(<<>>)
    /\ payload = NoPayload
    /\ calls = <<>>
    /\ trace = <<>>
    /\ open_conns = 0
    /\ GateIdle
    /\ session = SessionOff
    /\ runs \in [RunIds -> {NewRun(ans) : ans \in RunAnswers}]

UnchangedSingleRun ==
    UNCHANGED <<pc, state, payload, calls, trace, open_conns, gate_pc, gate_query, gate_result, session>>

\* a run reaches await self.llm.ainvoke(messages) and yields to the event loop
RunSuspends ==
    \E r \in RunIds :
        /\ runs[r].pc # "done"
        /\ ~runs[r].awaiting
        /\ reaches_await(runs[r])
        /\ runs' = [runs EXCEPT ![r].awaiting = TRUE]
        /\ UnchangedSingleRun

\* the event loop resumes a suspended run, or runs a piece that does not await
RunAdvances ==
    \E r \in RunIds :
        /\ runs[r].pc # "done"
        /\ runs[r].awaiting \/ ~reaches_await(runs[r])
        /\ runs' = [runs EXCEPT ![r] =
                       [step_run(runs[r]) EXCEPT !.overlapped =
                           runs[r].overlapped \/ \E o \in RunIds \ {r} : runs[o].awaiting]]
        /\ UnchangedSingleRun

NextConc == RunSuspends \/ RunAdvances

SpecConc == InitConc /\ [][NextConc]_vars

\* the payload of a run on its own: the nodes composed along the edges of the workflow
solo_payload(ans) ==
    LET parsed    == parse_user_query(initial_state(ans.question), ans.intent)
        generated == generate_sql_query(parsed.st, ans.synth)
        executed  == execute_query(generated.st, ans.store)
        analyzed  == analyze_results(executed.st, ans.analysis)
        tag       == should_create_visualization(analyzed.st)
    IN  IF analyzed.raised \/ tag.kind = "raise" THEN payload_on_exception
        ELSE IF tag.value = "visualize"
        THEN payload_of(format_final_response(prepare_visualization(analyzed.st)))
        ELSE payload_of(format_final_response(analyzed.st))

\* C19: when process_query calls interleave at their suspension points, each run's
\* payload equals the payload that run produces alone with the same collaborator
\* responses.
C19_RunsAreIsolated ==
    \A r \in RunIds :
        runs[r].pc = "done" => runs[r].payload = solo_payload(runs[r].answers)

\* two runs with different answers overlapped in their awaits and both returned
C19_Witness ==
    /\ \A r \in RunIds : runs[r].pc = "done" /\ runs[r].overlapped
    /\ runs[1].answers # runs[2].answers
    /\ runs[2].payload.raw_results # <<>>
    /\ runs[1].payload.sql_query # runs[2].payload.sql_query

----------------------------------------------------------------------------
(* The branch predicate and the chart descriptor, checked under Spec *)

\* the query_type of the intent, None when the intent has none
QueryTypeOf(st) ==
    IF st.parsed_intent.tag = "dict" /\ "query_type" \in DOMAIN st.parsed_intent.val
    THEN st.parsed_intent.val["query_type"]
    ELSE "None"

ChartEligibleTypes == {"top_n", "comparison", "geographic_analysis", "time_analysis"}

Evaluations == {i \in DOMAIN trace : trace[i] = "should_create_visualization"}

Position(name) == {i \in DOMAIN trace : trace[i] = name}

\* C21: the branch predicate returns visualize exactly when error is absent, the
\* query_type is chart-eligible and there is more than one row, and skip_viz in every
\* other case.
C21_VisualizeIffEligible ==
    pc = "branch" =>
        should_create_visualization(state) =
            Returned(IF /\ ~ErrorSet
                        /\ QueryTypeOf(state) \in ChartEligibleTypes
                        /\ Len(state.query_results) > 1
                     THEN "visualize" ELSE "skip_viz")

\* C22: every run evaluates the branch predicate exactly once, after execute_query
\* and analyze_results and before format_response, and the evaluation leaves the
\* session state as it is.
C22_PredicateEvaluatedOnce ==
    [][/\ pc = "branch" => state' = state
       /\ pc' = "done" =>
              /\ Cardinality(Evaluations') = 1
              /\ \A e \in Evaluations' :
                     /\ \A i \in Position("execute_query")' \cup Position("analyze_results")' : i < e
                     /\ \A i \in Position("format_response")' : e < i]_vars

\* C23: the branch predicate is total: in every state that reaches it, whatever
\* value the intent is, it returns a branch tag and does not raise.
C23_PredicateIsTotal ==
    pc = "branch" =>
        /\ should_create_visualization(state).kind = "return"
        /\ should_create_visualization(state).value \in {"visualize", "skip_viz"}

\* C24: the descriptor prepare_visualization produces is a bar chart whose data is
\* the first min(20, row count) rows in their order, whose x_column is the first
\* column name of the first row and whose y_column is the second one, or None when
\* the first row has one column; error stays unset.
C24_ChartDescriptor ==
    [][pc = "prepare_visualization" =>
          LET rows == state.query_results
              viz  == state'.visualization_data
              kept == IF Len(rows) < 20 THEN Len(rows) ELSE 20
          IN  /\ viz.type = "bar"
              /\ Len(viz.data) = kept
              /\ \A i \in 1..kept : viz.data[i] = rows[i]
              /\ viz.x_column = rows[1][1].col
              /\ viz.y_column = IF Len(rows[1]) >= 2 THEN rows[1][2].col ELSE "None"
              /\ state'.error_message = <<>>]_vars

\* a chart was prepared from 21 one-column rows: 20 of them are kept, without y_column
C24_Witness ==
    /\ pc = "done"
    /\ Ran("prepare_visualization")
    /\ Len(state.query_results) = 21
    /\ Len(payload.visualization_data.data) = 20
    /\ payload.visualization_data.y_column = "None"

----------------------------------------------------------------------------
(* Order and number of the external calls, checked under Spec (C26 under SpecGate) *)

CallsTo(target) == {i \in DOMAIN calls : calls[i].to = target}

\* C25: no step of a run makes a collaborator call or a store access once error is set,
\* and a run makes each of the intent, synthesis and analysis calls and the store
\* execution at most once.
C25_NoRetries ==
    [][/\ ErrorSet => calls' = calls
       /\ \A target \in {"llm_intent", "llm_sql", "store", "llm_analysis"} :
              Cardinality(CallsTo(target)') <= 1]_vars

\* the statement failed in the store: it was given to the store once, and no
\* analysis call followed
C25_Witness ==
    /\ pc = "done"
    /\ ErrorSet
    /\ state.error_message[1] = "Query execution failed: "
    /\ \E i \in CallsTo("store") : ~calls[i].ok
    /\ CallsTo("llm_analysis") = {}
    /\ Ran("analyze_results")

BlockedOrder == <<kw_DROP, kw_DELETE, kw_INSERT, kw_UPDATE, kw_ALTER, kw_CREATE>>

PatternNames == <<"\\bDROP\\b", "\\bDELETE\\b", "\\bINSERT\\b", "\\bUPDATE\\b", "\\bALTER\\b", "\\bCREATE\\b">>

\* C26: a rejection of a query holding a blocked keyword names the pattern of the
\* first keyword, in the order DROP, DELETE, INSERT, UPDATE, ALTER, CREATE, that the
\* query holds, whether or not the query begins with SELECT; a rejection of a query
\* holding none of them names the SELECT rule.
C26_RejectionNamesItsCause ==
    (gate_pc = "done" /\ Rejected(gate_result)) =>
        IF HasBlockedWord(gate_query)
        THEN LET first == SetMin({i \in DOMAIN BlockedOrder : HasWholeWord(gate_query, BlockedOrder[i])})
             IN  gate_result.msg = <<"Unsafe SQL operation detected: ", PatternNames[first]>>
        ELSE /\ ~BeginsWithSelect(gate_query)
             /\ gate_result.msg = <<"Only SELECT queries are allowed">>

\* a query that breaks both rules and holds CREATE ahead of DROP is reported as DROP
C26_Witness ==
    /\ gate_pc = "done"
    /\ gate_query = kw_CREATE \o <<" ">> \o kw_DROP
    /\ ~BeginsWithSelect(gate_query)
    /\ gate_result.msg = <<"Unsafe SQL operation detected: ", "\\bDROP\\b">>

\* C27: a connection is opened and a statement is given to the store only after the
\* gate has returned True for the run's query, and every statement the store is
\* given is that query and begins with SELECT.
C27_GateBeforeStore ==
    \A i \in DOMAIN calls :
        calls[i].to \in {"connect", "store"} =>
            /\ \E j \in 1..(i - 1) :
                   /\ calls[j] = Call("gate", TRUE, state.sql_query)
                   /\ Permitted(validate_sql_safety(calls[j].arg))
            /\ calls[i].to = "store" =>
                   /\ calls[i].arg = state.sql_query
                   /\ BeginsWithSelect(calls[i].arg)

\* the store was given the statement the gate had permitted
C27_Witness ==
    /\ pc = "done"
    /\ \E i \in CallsTo("store") : \E j \in CallsTo("gate") : j < i /\ calls[j].ok
    /\ \E i \in CallsTo("connect") : calls[i].ok

\* C28: handle_error never runs; every run reaches END through format_response, so
\* an error is always composed by the error branch of format_final_response and the
\* text of handle_error is in no payload.
C28_EveryRunEndsThroughFormatResponse ==
    /\ ~Ran("handle_error")
    /\ pc = "done" =>
           /\ trace # <<>>
           /\ trace[Len(trace)] = "format_response"
           /\ ErrorSet => payload.response = error_text(state.error_message)
           /\ payload.response # handle_error(state).final_response

\* C29: sql_query changes only in the generate_sql step and only from empty, and when
\* a run has given a statement to the store, the payload's sql_query is that statement
\* and a Query used line of the final text quotes it.
C29_PayloadQueryIsTheExecutedQuery ==
    [][/\ state'.sql_query # state.sql_query => (pc = "generate_sql" /\ state.sql_query = <<>>)
       /\ pc' = "done" =>
              \A i \in CallsTo("store")' :
                  /\ payload'.sql_query = calls'[i].arg
                  /\ HasQueryLine(payload'.response) =>
                         \E k \in DOMAIN payload'.response :
                             /\ payload'.response[k] = "\n*Query used: "
                             /\ SubSeq(payload'.response, k + 2, k + 1 + Len(calls'[i].arg)) = calls'[i].arg]_vars

----------------------------------------------------------------------------
(* StreamlitApp: the message history of the chat page across script runs *)

\* largest length of the message history
MaxMessages == 5

\* a chat message; content is the text as segments (the literal pieces and the
\* interpolated values); the timestamp, sql_query and raw_data keys are not modelled
Message(role, content, viz) == [role |-> role, content |-> content, visualization |-> viz]

\* the heavy ballot X (U+274C), written as an escape
cross_mark == "\\u274c"

sample_queries ==
    <<"What are the top 10 complaint types?",
      "Which borough has the most complaints?",
      "What percent complaints are closed within 3 days?",
      "Which ZIP code has highest complaints?",
      "What's the average resolution time by agency?",
      "How many complaints have coordinates?">>

\* what the user types into st.chat_input
ChatInputs == {sample_queries[1], "Which agency closes requests fastest?"}

\* what agent.process_query(prompt) gives the page: a payload, or an exception
AgentReplies ==
    {[kind |-> "return", response |-> "Noise is the most common complaint type.",
      visualization_data |-> "chart"],
     [kind |-> "return", response |-> "No results found.", visualization_data |-> "none"],
     [kind |-> "raise", response |-> "agent failure", visualization_data |-> "none"]}

\* StreamlitApp.initialize_session_state
initial_session ==
    [messages |-> <<Message("assistant",
                            <<"Hello! I'm your NYC 311 Service Requests analytics agent. I can help you analyze complaint data with questions like:",
                              "\n\n* What are the top 10 complaint types?",
                              "\n* Which borough has the most complaints?",
                              "\n* What percentage of complaints are closed within 3 days?",
                              "\n* Which ZIP code has the highest number of complaints?",
                              "\n\nWhat would you like to explore?">>,
                            "none")>>,
     pending_query |-> NoPrompt, agent_initialized |-> FALSE, prompt |-> NoPrompt, at |-> "start"]

\* StreamlitApp.initialize_agent: constructing the agent succeeds or raises
initialize_agent(sess, ok) == [sess EXCEPT !.agent_initialized = ok]

\* StreamlitApp.run up to render_sidebar: the agent is initialized if it is not yet
run_until_sidebar(sess, ok) == IF sess.agent_initialized THEN sess ELSE initialize_agent(sess, ok)

\* render_sidebar when a sample-query button was clicked: the script run ends at st.rerun()
render_sidebar_sample_query(sess, query) ==
    [sess EXCEPT !.messages = Append(@, Message("user", <<query>>, "none")),
                 !.pending_query = query,
                 !.at = "rerun"]

\* any(msg.role == "user" and msg.content == prompt for msg in messages[-2:])
user_msg_exists(messages, prompt) ==
    \E i \in DOMAIN messages :
        /\ i > Len(messages) - 2
        /\ messages[i].role = "user"
        /\ messages[i].content = <<prompt>>

\* StreamlitApp.render_chat_interface, from the pending-query test on
render_chat_interface(sess, typed, reply) ==
    LET prompt == IF sess.pending_query # NoPrompt THEN sess.pending_query ELSE typed
        taken  == [sess EXCEPT !.pending_query = NoPrompt, !.prompt = prompt]
    IN  IF prompt = NoPrompt THEN [taken EXCEPT !.at = "idle"]
        ELSE IF ~taken.agent_initialized THEN [taken EXCEPT !.at = "not_initialized"]
        ELSE LET shown  == IF user_msg_exists(taken.messages, prompt)
                           THEN taken.messages
                           ELSE Append(taken.messages, Message("user", <<prompt>>, "none"))
                 answer == IF reply.kind = "raise"
                           THEN Message("assistant", <<cross_mark, " Sorry, I encountered an error: ", reply.response>>, "none")
                           ELSE Message("assistant", <<reply.response>>, reply.visualization_data)
             IN  [taken EXCEPT !.messages = Append(shown, answer), !.at = "processed"]

UnchangedPipeline ==
    UNCHANGED <<pc, state, payload, calls, trace, open_conns, gate_pc, gate_query, gate_result, runs>>

InitChat ==
    /\ pc = "off"
    /\ state = initial_state(<<>>)
    /\ payload = NoPayload
    /\ calls = <<>>
    /\ trace = <<>>
    /\ open_conns = 0
    /\ runs = <<>>
    /\ GateIdle
    /\ session = initial_session

\* a script run in which a sample-query button is clicked
RenderSidebarSampleQuery ==
    /\ session.at \notin {"off", "rerun"}
    /\ Len(session.messages) + 2 <= MaxMessages
    /\ \E i \in DOMAIN sample_queries, ok \in BOOLEAN :
           session' = render_sidebar_sample_query(run_until_sidebar(session, ok), sample_queries[i])
    /\ UnchangedPipeline

\* a script run in which the Refresh Agent button is clicked
RenderSidebarRefreshAgent ==
    /\ session.at \notin {"off", "rerun"}
    /\ \E ok \in BOOLEAN : session' = [initialize_agent(session, ok) EXCEPT !.at = "rerun"]
    /\ UnchangedPipeline

\* a script run that reaches render_chat_interface: the rerun a button asked for,
\* or the run a chat input started
RenderChatInterface ==
    /\ session.at # "off"
    /\ \E ok \in BOOLEAN, reply \in AgentReplies,
          typed \in (IF session.at = "rerun" THEN {} ELSE ChatInputs) \cup {NoPrompt} :
           /\ typed # NoPrompt => Len(session.messages) + 2 <= MaxMessages
           /\ session' = render_chat_interface(run_until_sidebar(session, ok), typed, reply)
    /\ UnchangedPipeline

NextChat ==
    \/ RenderSidebarSampleQuery
    \/ RenderSidebarRefreshAgent
    \/ RenderChatInterface

SpecChat == InitChat /\ [][NextChat]_vars

\* C30: after render_chat_interface has processed a prompt, the history ends with
\* that prompt as a user message followed by one assistant message.
C30_PromptThenOneReply ==
    session.at = "processed" =>
        LET messages == session.messages
        IN  /\ Len(messages) >= 2
            /\ messages[Len(messages) - 1] = Message("user", <<session.prompt>>, "none")
            /\ messages[Len(messages)].role = "assistant"

====
